---- MODULE Spec2Model ----
(***************************************************************************)
(* Model of hermes_watcher.py: one batch run of main() per process, the    *)
(* snapshot file being the only state that survives between runs.          *)
(*                                                                         *)
(* Text (str) is modelled as a sequence of Unicode code points, so that    *)
(* stripping, sorting, joining, formatting and the newline translation of  *)
(* a text-mode read are computed, not assumed.                             *)
(*                                                                         *)
(* A library call either does what it does on success or raises and has    *)
(* had no effect: requests.get / raise_for_status, read_text, write_text   *)
(* and the SMTP session each have a failing outcome.  The file is written  *)
(* on a platform whose line separator is "\n", so write_text stores the    *)
(* text as given; read_text translates "\r" and "\r\n" to "\n".  The     *)
(* print calls are not modelled.                                           *)
(***************************************************************************)
EXTENDS Integers, Sequences, FiniteSets, TLC

(* ------------------------------ bounds --------------------------------- *)

\* longest list of anchors in a document handed to extract_product_list
MaxAnchors == 3

\* longest list of anchors in a page served to a run of main()
MaxFetchedAnchors == 2

\* longest list of anchors in the documents an extraction is compared with
MaxOtherAnchors == 2

(* --------------------------- configuration ----------------------------- *)

\* the default of HERMES_URL
URL ==
    <<104, 116, 116, 112, 115, 58, 47, 47, 119, 119, 119, 46, 104, 101, 114,
      109, 101, 115, 46, 99, 111, 109, 47, 117, 115, 47, 101, 110, 47, 99,
      97, 116, 101, 103, 111, 114, 121, 47, 119, 111, 109, 101, 110, 47, 98,
      97, 103, 115, 45, 97, 110, 100, 45, 115, 109, 97, 108, 108, 45, 108,
      101, 97, 116, 104, 101, 114, 45, 103, 111, 111, 100, 115, 47, 98, 97,
      103, 115, 45, 97, 110, 100, 45, 99, 108, 117, 116, 99, 104, 101, 115,
      47, 35, 124>>

\* "NO_PRODUCTS_FOUND"
NO_PRODUCTS_FOUND ==
    <<78, 79, 95, 80, 82, 79, 68, 85, 67, 84, 83, 95, 70, 79, 85, 78, 68>>

\* "Hermès bags page changed!"
ChangedSubject ==
    <<72, 101, 114, 109, 232, 115, 32, 98, 97, 103, 115, 32, 112, 97, 103,
      101, 32, 99, 104, 97, 110, 103, 101, 100, 33>>

\* os.environ.get of a variable that is not set
None == "None"

\* the values an environment variable is drawn from: unset, empty, set
EnvValues == {None, "", "set"}

Environments == [SMTP_USER : EnvValues, SMTP_PASS : EnvValues, EMAIL_TO : EnvValues]

\* the environments the runs of main() are started in: nothing set,
\* the recipient defaulted to the sender, the recipient set but empty
RunEnvironments ==
    { [SMTP_USER |-> None,  SMTP_PASS |-> None,  EMAIL_TO |-> None],
      [SMTP_USER |-> "set", SMTP_PASS |-> "set", EMAIL_TO |-> None],
      [SMTP_USER |-> "set", SMTP_PASS |-> "set", EMAIL_TO |-> ""] }

\* Python truthiness of an Optional[str]
Truthy(v) == v # None /\ v # ""

(* ------------------------------- text ---------------------------------- *)

\* the characters str.strip() removes (those below U+0100)
Whitespace == {9, 10, 11, 12, 13, 28, 29, 30, 31, 32, 133, 160}

RECURSIVE lstrip(_)
lstrip(s) ==
    IF s = <<>> THEN <<>>
    ELSE IF Head(s) \in Whitespace THEN lstrip(Tail(s)) ELSE s

RECURSIVE rstrip(_)
rstrip(s) ==
    IF s = <<>> THEN <<>>
    ELSE IF s[Len(s)] \in Whitespace THEN rstrip(SubSeq(s, 1, Len(s) - 1)) ELSE s

\* str.strip()
strip(s) == rstrip(lstrip(s))

\* a < b for str: lexicographic by code point, a proper prefix first
RECURSIVE StrLess(_, _)
StrLess(a, b) ==
    IF b = <<>> THEN FALSE
    ELSE IF a = <<>> THEN TRUE
    ELSE IF Head(a) # Head(b) THEN Head(a) < Head(b)
    ELSE StrLess(Tail(a), Tail(b))

\* "\n".join(seq)
RECURSIVE JoinNewline(_)
JoinNewline(seq) ==
    IF seq = <<>> THEN <<>>
    ELSE IF Len(seq) = 1 THEN seq[1]
    ELSE seq[1] \o <<10>> \o JoinNewline(Tail(seq))

\* sub in s, for str
Contains(s, sub) ==
    \E i \in 1..(Len(s) - Len(sub) + 1) :
        SubSeq(s, i, i + Len(sub) - 1) = sub

\* the translation a text-mode read with newline=None applies:
\* "\r\n" and a lone "\r" both become "\n"
RECURSIVE UniversalNewlines(_)
UniversalNewlines(s) ==
    IF s = <<>> THEN <<>>
    ELSE IF Head(s) = 13
         THEN IF Len(s) >= 2 /\ s[2] = 10
              THEN <<10>> \o UniversalNewlines(Tail(Tail(s)))
              ELSE <<10>> \o UniversalNewlines(Tail(s))
         ELSE <<Head(s)>> \o UniversalNewlines(Tail(s))

(* ----------------------------- documents ------------------------------- *)

\* The <a> elements of a parsed document, in document order.  product_href
\* says whether the href contains '/us/en/product/'; strings are the text
\* nodes below the element.
Anchors ==
    { [product_href |-> TRUE,  strings |-> << <<32, 65, 32>> >>],
      [product_href |-> TRUE,  strings |-> << <<65>> >>],
      [product_href |-> TRUE,  strings |-> << <<66>> >>],
      [product_href |-> TRUE,  strings |-> << <<32, 10>> >>],
      [product_href |-> FALSE, strings |-> << <<67>> >>],
      [product_href |-> TRUE,  strings |-> << <<65, 13, 66>> >>],
      [product_href |-> TRUE,  strings |-> << <<32, 66>>, <<65, 32>> >>] }

Documents(n) == UNION { [1..k -> Anchors] : k \in 0..n }

\* the anchors of the pages the site serves to the runs of main()
PageAnchors ==
    { [product_href |-> TRUE,  strings |-> << <<32, 65, 32>> >>],
      [product_href |-> TRUE,  strings |-> << <<66>> >>],
      [product_href |-> TRUE,  strings |-> << <<32, 10>> >>],
      [product_href |-> TRUE,  strings |-> << <<65, 13, 66>> >>] }

Pages(n) == UNION { [1..k -> PageAnchors] : k \in 0..n }

\* soup.select("a[href*='/us/en/product/']")
RECURSIVE select_product_links(_)
select_product_links(doc) ==
    IF doc = <<>> THEN <<>>
    ELSE IF Head(doc).product_href
         THEN <<Head(doc)>> \o select_product_links(Tail(doc))
         ELSE select_product_links(Tail(doc))

\* a.get_text(strip=True): every text node stripped, the empty ones
\* dropped, the rest concatenated
RECURSIVE get_text_strip(_)
get_text_strip(strings) ==
    IF strings = <<>> THEN <<>>
    ELSE strip(Head(strings)) \o get_text_strip(Tail(strings))

\* the loop of lines 84-88
RECURSIVE collect_names(_)
collect_names(links) ==
    IF links = <<>> THEN <<>>
    ELSE LET text == get_text_strip(Head(links).strings)
         IN  IF text # <<>>
             THEN <<text>> \o collect_names(Tail(links))
             ELSE collect_names(Tail(links))

\* set(names)
ToSet(seq) == { seq[i] : i \in 1..Len(seq) }

\* sorted(S) for a set of str
RECURSIVE sorted(_)
sorted(S) ==
    IF S = {} THEN <<>>
    ELSE LET least == CHOOSE x \in S : \A y \in S \ {x} : StrLess(x, y)
         IN  <<least>> \o sorted(S \ {least})

\* the same function without the set(): sorted(names) keeps repetitions
RECURSIVE sorted_list(_)
sorted_list(seq) ==
    IF seq = <<>> THEN <<>>
    ELSE LET i == CHOOSE i \in 1..Len(seq) :
                    \A j \in 1..Len(seq) : ~StrLess(seq[j], seq[i])
         IN  <<seq[i]>> \o
             sorted_list(SubSeq(seq, 1, i - 1) \o SubSeq(seq, i + 1, Len(seq)))

extract_product_list_nodedup(doc) ==
    LET names == collect_names(select_product_links(doc))
        unique_names == sorted_list(names)
    IN  IF unique_names = <<>> THEN NO_PRODUCTS_FOUND
        ELSE JoinNewline(unique_names)

\* the same function returning "" when nothing is found
extract_product_list_nosentinel(doc) ==
    JoinNewline(sorted(ToSet(collect_names(select_product_links(doc)))))

extract_product_list(doc) ==
    LET names == collect_names(select_product_links(doc))
        unique_names == sorted(ToSet(names))
    IN  IF unique_names = <<>> THEN NO_PRODUCTS_FOUND
        ELSE JoinNewline(unique_names)

(* ------------------------------- state --------------------------------- *)

VARIABLES
    snapshot_exists,  \* SNAPSHOT_FILE.exists()
    snapshot_text,    \* the text stored in SNAPSHOT_FILE
    env,              \* os.environ of the running process
    pc,               \* where the process is
    previous,         \* main's local
    html,             \* main's local
    current,          \* main's local
    subject,          \* send_email_notification's argument
    body,             \* main's local, send_email_notification's argument
    branch,           \* which of main's three paths the run took
    exit_status,      \* "running", then "success" (main returned) or
                      \* "failure" (an exception left main)
    notifier_calls,   \* calls of send_email_notification in this run
    smtp_log,         \* SMTP connections opened in this run
    events,           \* the run's calls of send_email_notification ("send")
                      \* and save_snapshot ("save"), in order
    fetch_failed,     \* requests raised in this run
    read_failed,      \* read_text raised in this run
    write_failed,     \* write_text raised in this run
    smtp_failed,      \* smtplib raised in this run
    start_file,       \* the snapshot file as the run found it
    prior_success,    \* some earlier run ended with success
    prior_run         \* whether the run before this one detected a change and
                      \* failed to notify, and the page it had fetched

vars ==
    <<snapshot_exists, snapshot_text, env, pc, previous, html, current,
      subject, body, branch, exit_status, notifier_calls, smtp_log, events,
      fetch_failed, read_failed, write_failed, smtp_failed, start_file,
      prior_success, prior_run>>

file_vars == <<snapshot_exists, snapshot_text>>

outcome_vars == <<fetch_failed, read_failed, write_failed, smtp_failed>>

history_vars == <<start_file, prior_success, prior_run>>

notify_vars == <<notifier_calls, smtp_log>>

(* ------------------------ module-level settings ------------------------ *)

SMTP_USER == env.SMTP_USER

SMTP_PASS == env.SMTP_PASS

\* os.environ.get("EMAIL_TO", SMTP_USER)
EMAIL_TO == IF env.EMAIL_TO = None THEN SMTP_USER ELSE env.EMAIL_TO

\* the same setting with the recipient left out of the test
EMAIL_ENABLED_norecipient == Truthy(SMTP_USER) /\ Truthy(SMTP_PASS)

EMAIL_ENABLED == Truthy(SMTP_USER) /\ Truthy(SMTP_PASS) /\ Truthy(EMAIL_TO)

\* the f-string of lines 131-135
ChangeBody(prev, cur) ==
    <<72, 101, 114, 109, 232, 115, 32, 98, 97, 103, 115, 32, 112, 97, 103,
      101, 32, 104, 97, 115, 32, 99, 104, 97, 110, 103, 101, 100, 46, 10,
      10, 85, 82, 76, 58, 32>>
    \o URL
    \o <<10, 10, 80, 114, 101, 118, 105, 111, 117, 115, 32, 112, 114, 111,
         100, 117, 99, 116, 32, 108, 105, 115, 116, 58, 10>>
    \o prev
    \o <<10, 10, 78, 101, 119, 32, 112, 114, 111, 100, 117, 99, 116, 32,
         108, 105, 115, 116, 58, 10>>
    \o cur
    \o <<10>>

(* ------------------------------ main() --------------------------------- *)

NoRun == [notify_failed |-> FALSE, html |-> <<>>]

\* a process starts: the module is imported (lines 13-29) and main() entered
StartRun ==
    /\ pc \in {"idle", "exited"}
    /\ \E e \in RunEnvironments : env' = e
    /\ pc' = "load"
    /\ previous' = <<>> /\ html' = <<>> /\ current' = <<>>
    /\ subject' = <<>> /\ body' = <<>>
    /\ branch' = "none"
    /\ exit_status' = "running"
    /\ notifier_calls' = <<>> /\ smtp_log' = <<>> /\ events' = <<>>
    /\ fetch_failed' = FALSE /\ read_failed' = FALSE
    /\ write_failed' = FALSE /\ smtp_failed' = FALSE
    /\ start_file' = [exists |-> snapshot_exists, text |-> snapshot_text]
    /\ prior_success' = (prior_success \/ exit_status = "success")
    /\ prior_run' = IF branch = "changed" /\ smtp_failed
                    THEN [notify_failed |-> TRUE, html |-> html]
                    ELSE NoRun
    /\ UNCHANGED file_vars

\* load_previous_snapshot(): no file
LoadAbsent ==
    /\ pc = "load"
    /\ ~snapshot_exists
    /\ previous' = <<>>
    /\ pc' = "fetch"
    /\ UNCHANGED <<file_vars, env, html, current, subject, body, branch,
                   exit_status, notify_vars, events, outcome_vars,
                   history_vars>>

\* load_previous_snapshot(): the file is read in text mode
LoadRead ==
    /\ pc = "load"
    /\ snapshot_exists
    /\ previous' = UniversalNewlines(snapshot_text)
    /\ pc' = "fetch"
    /\ UNCHANGED <<file_vars, env, html, current, subject, body, branch,
                   exit_status, notify_vars, events, outcome_vars,
                   history_vars>>

\* load_previous_snapshot(): read_text raises, nothing in main catches it
LoadFail ==
    /\ pc = "load"
    /\ snapshot_exists
    /\ read_failed' = TRUE
    /\ exit_status' = "failure"
    /\ pc' = "exited"
    /\ UNCHANGED <<file_vars, env, previous, html, current, subject, body,
                   branch, notify_vars, events, fetch_failed, write_failed,
                   smtp_failed, history_vars>>

\* fetch_page_html(URL) returns the page
FetchOk ==
    /\ pc = "fetch"
    /\ \E doc \in Pages(MaxFetchedAnchors) : html' = doc
    /\ pc' = "extract"
    /\ UNCHANGED <<file_vars, env, previous, current, subject, body, branch,
                   exit_status, notify_vars, events, outcome_vars,
                   history_vars>>

\* a fetch failure swallowed: the run goes on with an empty page
FetchFail_swallowed ==
    /\ pc = "fetch"
    /\ fetch_failed' = TRUE
    /\ html' = <<>>
    /\ pc' = "extract"
    /\ UNCHANGED <<file_vars, env, previous, current, subject, body, branch,
                   exit_status, notify_vars, events, read_failed,
                   write_failed, smtp_failed, history_vars>>

\* fetch_page_html(URL): requests.get or raise_for_status raises, nothing
\* in main catches it
FetchFail ==
    /\ pc = "fetch"
    /\ fetch_failed' = TRUE
    /\ exit_status' = "failure"
    /\ pc' = "exited"
    /\ UNCHANGED <<file_vars, env, previous, html, current, subject, body,
                   branch, notify_vars, events, read_failed, write_failed,
                   smtp_failed, history_vars>>

\* current = extract_product_list(html)
Extract ==
    /\ pc = "extract"
    /\ current' = extract_product_list(html)
    /\ pc' = "compare"
    /\ UNCHANGED <<file_vars, env, previous, html, subject, body, branch,
                   exit_status, notify_vars, events, outcome_vars,
                   history_vars>>

\* a first run that takes the changed path
FirstRun_notifying ==
    /\ pc = "compare"
    /\ previous = <<>>
    /\ branch' = "first"
    /\ body' = ChangeBody(previous, current)
    /\ subject' = ChangedSubject
    /\ pc' = "send"
    /\ UNCHANGED <<file_vars, env, previous, html, current, exit_status,
                   notify_vars, events, outcome_vars, history_vars>>

\* if not previous: save_snapshot(current); return
FirstRun ==
    /\ pc = "compare"
    /\ previous = <<>>
    /\ branch' = "first"
    /\ pc' = "save"
    /\ UNCHANGED <<file_vars, env, previous, html, current, subject, body,
                   exit_status, notify_vars, events, outcome_vars,
                   history_vars>>

\* the no-change test without its return: the run saves all the same
NoChange_saving ==
    /\ pc = "compare"
    /\ previous # <<>>
    /\ current = previous
    /\ branch' = "nochange"
    /\ pc' = "save"
    /\ UNCHANGED <<file_vars, env, previous, html, current, subject, body,
                   exit_status, notify_vars, events, outcome_vars,
                   history_vars>>

\* if current == previous: return
NoChange ==
    /\ pc = "compare"
    /\ previous # <<>>
    /\ current = previous
    /\ branch' = "nochange"
    /\ exit_status' = "success"
    /\ pc' = "exited"
    /\ UNCHANGED <<file_vars, env, previous, html, current, subject, body,
                   notify_vars, events, outcome_vars, history_vars>>

\* the changed path with a body that leaves the previous list out
ChangeDetected_noprevious ==
    /\ pc = "compare"
    /\ previous # <<>>
    /\ current # previous
    /\ branch' = "changed"
    /\ body' = ChangeBody(<<>>, current)
    /\ subject' = ChangedSubject
    /\ pc' = "send"
    /\ UNCHANGED <<file_vars, env, previous, html, current, exit_status,
                   notify_vars, events, outcome_vars, history_vars>>

\* the changed path up to the call of send_email_notification
ChangeDetected ==
    /\ pc = "compare"
    /\ previous # <<>>
    /\ current # previous
    /\ branch' = "changed"
    /\ body' = ChangeBody(previous, current)
    /\ subject' = ChangedSubject
    /\ pc' = "send"
    /\ UNCHANGED <<file_vars, env, previous, html, current, exit_status,
                   notify_vars, events, outcome_vars, history_vars>>

(* ---------------------- send_email_notification ------------------------ *)

Call == [subject |-> subject, body |-> body]

Message ==
    [Subject |-> subject, From |-> SMTP_USER, To |-> EMAIL_TO, body |-> body]

\* if not EMAIL_ENABLED: print(...); return
SendDisabled ==
    /\ pc = "send"
    /\ ~EMAIL_ENABLED
    /\ notifier_calls' = Append(notifier_calls, Call)
    /\ events' = Append(events, "send")
    /\ pc' = "save"
    /\ UNCHANGED <<file_vars, env, previous, html, current, subject, body,
                   branch, exit_status, smtp_log, outcome_vars, history_vars>>

\* the SMTP session of lines 48-51 goes through
SendOk ==
    /\ pc = "send"
    /\ EMAIL_ENABLED
    /\ notifier_calls' = Append(notifier_calls, Call)
    /\ smtp_log' = Append(smtp_log, Message)
    /\ events' = Append(events, "send")
    /\ pc' = "save"
    /\ UNCHANGED <<file_vars, env, previous, html, current, subject, body,
                   branch, exit_status, outcome_vars, history_vars>>

\* the SMTP session raises and the exception leaves the function
SendFail_propagating ==
    /\ pc = "send"
    /\ EMAIL_ENABLED
    /\ notifier_calls' = Append(notifier_calls, Call)
    /\ smtp_log' = Append(smtp_log, Message)
    /\ events' = Append(events, "send")
    /\ smtp_failed' = TRUE
    /\ exit_status' = "failure"
    /\ pc' = "exited"
    /\ UNCHANGED <<file_vars, env, previous, html, current, subject, body,
                   branch, fetch_failed, read_failed, write_failed,
                   history_vars>>

\* the SMTP session raises: except Exception prints and the function returns
SendFail ==
    /\ pc = "send"
    /\ EMAIL_ENABLED
    /\ notifier_calls' = Append(notifier_calls, Call)
    /\ smtp_log' = Append(smtp_log, Message)
    /\ events' = Append(events, "send")
    /\ smtp_failed' = TRUE
    /\ pc' = "save"
    /\ UNCHANGED <<file_vars, env, previous, html, current, subject, body,
                   branch, exit_status, fetch_failed, read_failed,
                   write_failed, history_vars>>

(* --------------------------- save_snapshot ----------------------------- *)

\* save_snapshot(current) writes the file, then main returns
SaveOk ==
    /\ pc = "save"
    /\ snapshot_exists' = TRUE
    /\ snapshot_text' = current
    /\ events' = Append(events, "save")
    /\ exit_status' = "success"
    /\ pc' = "exited"
    /\ UNCHANGED <<env, previous, html, current, subject, body, branch,
                   notify_vars, outcome_vars, history_vars>>

\* save_snapshot(current): write_text raises, nothing in main catches it;
\* the file is left as it was
SaveFail ==
    /\ pc = "save"
    /\ events' = Append(events, "save")
    /\ write_failed' = TRUE
    /\ exit_status' = "failure"
    /\ pc' = "exited"
    /\ UNCHANGED <<file_vars, env, previous, html, current, subject, body,
                   branch, notify_vars, fetch_failed, read_failed,
                   smtp_failed, history_vars>>

(* --------------------------- specifications ---------------------------- *)

NoEnvironment == [SMTP_USER |-> None, SMTP_PASS |-> None, EMAIL_TO |-> None]

\* nothing has happened yet in the process and there is no snapshot file
Fresh ==
    /\ snapshot_exists = FALSE
    /\ snapshot_text = <<>>
    /\ start_file = [exists |-> FALSE, text |-> <<>>]
    /\ previous = <<>> /\ current = <<>>
    /\ branch = "none"
    /\ exit_status = "running"
    /\ notifier_calls = <<>> /\ smtp_log = <<>> /\ events = <<>>
    /\ fetch_failed = FALSE /\ read_failed = FALSE
    /\ write_failed = FALSE /\ smtp_failed = FALSE
    /\ prior_success = FALSE
    /\ prior_run = NoRun

\* no process has run yet
Init ==
    /\ Fresh
    /\ env = NoEnvironment
    /\ html = <<>> /\ subject = <<>> /\ body = <<>>
    /\ pc = "idle"

Next ==
    \/ StartRun
    \/ LoadAbsent \/ LoadRead \/ LoadFail
    \/ FetchOk \/ FetchFail
    \/ Extract
    \/ FirstRun \/ NoChange \/ ChangeDetected
    \/ SendDisabled \/ SendOk \/ SendFail
    \/ SaveOk \/ SaveFail

\* runs of main(), one after the other
Spec == Init /\ [][Next]_vars

\* extract_product_list about to be applied to a parsed document
InitExtract ==
    /\ Fresh
    /\ env = NoEnvironment
    /\ html \in Documents(MaxAnchors)
    /\ subject = <<>> /\ body = <<>>
    /\ pc = "extract"

SpecExtract == InitExtract /\ [][Extract]_vars

Subjects == {<<>>, ChangedSubject}

Bodies == {<<>>, <<65>>, ChangeBody(<<65>>, <<65, 10, 66>>)}

\* send_email_notification about to be called with a subject and a body,
\* in a process started in any environment
InitNotify ==
    /\ Fresh
    /\ env \in Environments
    /\ html = <<>>
    /\ subject \in Subjects
    /\ body \in Bodies
    /\ pc = "send"

NextNotify == SendDisabled \/ SendOk \/ SendFail

SpecNotify == InitNotify /\ [][NextNotify]_vars

(* ------------------------------- claims -------------------------------- *)

FileNow == [exists |-> snapshot_exists, text |-> snapshot_text]

Stored(text) == snapshot_exists /\ snapshot_text = text

\* C1: in the changed path the current snapshot is saved before the
\* notifier is called: whenever send_email_notification is about to be
\* called the stored snapshot already equals the current one, and every
\* call of the notifier comes after a call of save_snapshot in the run.
C1_SavedBeforeNotified ==
    /\ (pc = "send" /\ branch = "changed") => Stored(current)
    /\ branch = "changed" =>
         \A i \in 1..Len(events) :
             events[i] = "send" => \E j \in 1..(i - 1) : events[j] = "save"

\* C2: a run that detects a change and whose SMTP session fails still ends
\* with the current snapshot stored, and the run after it, fetching the same
\* page, takes the no-change path and does not call the notifier.
C2_FailedNotifyNotRepeated ==
    /\ (pc = "exited" /\ branch = "changed" /\ smtp_failed) => Stored(current)
    /\ (prior_run.notify_failed /\ branch # "none" /\ html = prior_run.html) =>
         (branch = "nochange" /\ notifier_calls = <<>>)

\* C3: a run that loaded the empty string and ended with success has stored
\* exactly the snapshot it extracted and never called the notifier.
C3_FirstRunNoNotify ==
    (pc = "exited" /\ exit_status = "success" /\ previous = <<>>) =>
        /\ Stored(current)
        /\ current = extract_product_list(html)
        /\ notifier_calls = <<>>
        /\ smtp_log = <<>>

C3_Witness ==
    /\ pc = "exited" /\ exit_status = "success" /\ previous = <<>>
    /\ Len(html) = 2
    /\ current # NO_PRODUCTS_FOUND

\* C4: once the extracted snapshot is found equal to a non-empty previous
\* one, the run calls neither save_snapshot nor the notifier, leaves the
\* snapshot file as it found it, and ends with success.
C4_UnchangedNoOp ==
    (previous # <<>> /\ current = previous) =>
        /\ FileNow = start_file
        /\ events = <<>>
        /\ notifier_calls = <<>>
        /\ smtp_log = <<>>
        /\ pc \in {"compare", "exited"}
        /\ pc = "exited" => (branch = "nochange" /\ exit_status = "success")

C4_Witness ==
    /\ pc = "exited" /\ branch = "nochange"
    /\ previous # <<>> /\ current = previous
    /\ current # NO_PRODUCTS_FOUND

C6_FailureOnlyFetchOrStorage ==
    pc = "exited" =>
        /\ exit_status \in {"success", "failure"}
        /\ exit_status = "failure" <=>
             (fetch_failed \/ read_failed \/ write_failed)

C6_Witness ==
    /\ pc = "exited" /\ exit_status = "success"
    /\ smtp_failed

\* C7: when the fetch fails the run ends with failure without comparing:
\* the snapshot file is as the run found it, save_snapshot and the notifier
\* were never called.
C7_FetchFailureLeavesAll ==
    fetch_failed =>
        /\ pc = "exited" /\ exit_status = "failure"
        /\ branch = "none"
        /\ FileNow = start_file
        /\ events = <<>>
        /\ notifier_calls = <<>>
        /\ smtp_log = <<>>

C7_Witness ==
    /\ fetch_failed
    /\ snapshot_exists
    /\ previous # <<>>

\* the sender address, the sender secret or the recipient (EMAIL_TO, or the
\* sender address when EMAIL_TO is not set) is missing or empty
CredentialMissing ==
    \/ env.SMTP_USER \in {None, ""}
    \/ env.SMTP_PASS \in {None, ""}
    \/ env.EMAIL_TO = ""

\* C8: with a credential missing, send_email_notification can always
\* complete, and when it has, it has returned to its caller without an
\* exception and no SMTP connection was opened, whatever subject and body.
C8_DisabledNotifierReturns ==
    CredentialMissing =>
        /\ pc = "send" => ENABLED SendDisabled
        /\ notifier_calls # <<>> =>
             /\ pc = "save"
             /\ exit_status = "running"
             /\ ~smtp_failed
             /\ smtp_log = <<>>

C8_Witness ==
    /\ env.SMTP_USER = "set" /\ env.SMTP_PASS = "set" /\ env.EMAIL_TO = ""
    /\ notifier_calls # <<>>
    /\ body # <<>>
    /\ pc = "save"

\* the set of the non-empty trimmed texts of the matching elements
TrimmedTexts(doc) ==
    { get_text_strip(doc[i].strings) :
        i \in { k \in 1..Len(doc) : doc[k].product_href } } \ {<<>>}

Reverse(seq) == [i \in 1..Len(seq) |-> seq[Len(seq) + 1 - i]]

\* C9: the extracted snapshot is the sentinel when the set of trimmed texts
\* is empty and otherwise the newline-joined strictly ascending listing of
\* that set; documents with the same set (among them the document reversed
\* and the document repeated) extract to the same snapshot.
C9_FunctionOfTheSet ==
    pc = "compare" =>
        LET T == TrimmedTexts(html)
        IN  /\ T = {} => current = NO_PRODUCTS_FOUND
            /\ T # {} =>
                 \E s \in [1..Cardinality(T) -> T] :
                     /\ \A i, j \in 1..Cardinality(T) :
                            i < j => StrLess(s[i], s[j])
                     /\ current = JoinNewline(s)
            /\ \A d \in {Reverse(html), html \o html} \cup Documents(MaxOtherAnchors) :
                   TrimmedTexts(d) = T => extract_product_list(d) = current

C9_Witness ==
    /\ pc = "compare"
    /\ LET names == collect_names(select_product_links(html))
       IN  /\ Len(html) = 3 /\ Len(names) = 3
           /\ Cardinality(TrimmedTexts(html)) = 2
           /\ StrLess(names[3], names[1])

====
